---- MODULE Spec2Model ----
(***************************************************************************)
(* Image Management API: user registration / login (JWT) and per-user      *)
(* image upload / update / delete / list over a relational database and a  *)
(* disk-backed upload directory.                                           *)
(*                                                                         *)
(* Each HTTP request is handled by an async handler chain.  An action of   *)
(* this model is one atomic piece of a handler: the database or file       *)
(* system operation it awaits together with the synchronous code that      *)
(* runs up to the next await (or up to the response).  Handlers of         *)
(* different requests interleave at these points.                          *)
(*                                                                         *)
(* Strings that the code inspects are sequences: an email and a password   *)
(* are sequences of characters, an Authorization header is the sequence of *)
(* its space separated words, the :id path parameter is a sequence of      *)
(* digits and letters, an error message is a sequence of text fragments.   *)
(* Not modelled: console logging, the stack field of error bodies in       *)
(* development mode, and the created_at/updated_at columns of images.      *)
(***************************************************************************)
EXTENDS Integers, Sequences, FiniteSets, TLC

\* -------------------------------------------------------------- bounds
\* Files the upload middleware may store in one run (fresh file names).
MaxFiles == 2
\* Last tick of the clock.
MaxClock == 1
\* Termination signals the process may receive.
MaxSignals == 2

\* ------------------------------------------------- program constants
JWT_SECRET == "default-secret-key"
\* '24h', counted in clock ticks.
JWT_EXPIRES_IN == 1
UPLOAD_DIR == "uploads"
MAX_FILE_SIZE == 5242880
ALLOWED_MIME_TYPES == {"image/jpeg", "image/jpg", "image/png", "image/gif"}
MinPasswordLength == 6

\* ------------------------------------------------------ request inputs
SlotOrder == <<"c1", "c2">>
Slots == {SlotOrder[i] : i \in 1..Len(SlotOrder)}

EmailA == <<"a", "@", "x", ".", "i", "o">>
EmailB == <<"b", "@", "x", ".", "i", "o">>
GoodEmails == {EmailA, EmailB}
\* no dot after the @, a blank inside, missing altogether
BadEmails == {<<"a", "@", "x">>, <<"a", " ", "@", "x", ".", "i">>, <<>>}

GoodPassword == <<"s", "e", "c", "r", "e", "t">>
OtherPassword == <<"w", "r", "o", "n", "g", "1">>
ShortPassword == <<"a", "b", "c">>
Salts == {"salt1"}

\* Request bodies the clients send.
RegisterBodies ==
  {[email |-> e, password |-> GoodPassword, fullName |-> "Ann"] : e \in GoodEmails \cup BadEmails}
  \cup {[email |-> EmailA, password |-> ShortPassword, fullName |-> "Ann"],
        [email |-> EmailA, password |-> <<>>, fullName |-> "Ann"],
        [email |-> EmailA, password |-> GoodPassword, fullName |-> ""]}
LoginBodies ==
  {[email |-> e, password |-> GoodPassword] : e \in GoodEmails \cup BadEmails}
  \cup {[email |-> e, password |-> OtherPassword] : e \in GoodEmails}
  \cup {[email |-> EmailA, password |-> <<>>]}

\* ---------------------------------------------------------------- errors
AppErrorClasses ==
  {"ValidationError", "AuthenticationError", "AuthorizationError", "NotFoundError"}

AppError(cls, message, statusCode) ==
  [cls |-> cls, name |-> "Error", statusCode |-> statusCode, code |-> "",
   message |-> message]

ValidationError(message) == AppError("ValidationError", message, 400)
AuthenticationError(message) == AppError("AuthenticationError", message, 401)
AuthorizationError(message) == AppError("AuthorizationError", message, 403)
NotFoundError(message) == AppError("NotFoundError", message, 404)

\* a plain Error, a MulterError and the ORM's errors
PlainError(message) ==
  [cls |-> "Error", name |-> "Error", statusCode |-> 0, code |-> "",
   message |-> message]
MulterError(code, message) ==
  [cls |-> "MulterError", name |-> "MulterError", statusCode |-> 0, code |-> code,
   message |-> <<message>>]
SequelizeUniqueConstraintError ==
  [cls |-> "Error", name |-> "SequelizeUniqueConstraintError", statusCode |-> 0,
   code |-> "", message |-> <<"Validation error">>]

\* String.prototype.includes on a message held as fragments
includes(message, fragment) == \E i \in 1..Len(message) : message[i] = fragment

NoData == [none |-> TRUE]
Response(status, success, message, data) ==
  [status |-> status, success |-> success, message |-> message, data |-> data]

\* C16 mutant: the ORM's errors are not recognised.
errorHandlerNoSequelize(err) ==
  LET r == IF err.cls \in AppErrorClasses THEN
             [s |-> err.statusCode, m |-> err.message]
           ELSE IF err.cls = "MulterError" THEN
             [s |-> 400,
              m |-> IF err.code = "LIMIT_FILE_SIZE"
                      THEN <<"File size exceeds the maximum allowed limit">>
                    ELSE IF err.code = "LIMIT_UNEXPECTED_FILE"
                      THEN <<"Unexpected field in file upload">>
                    ELSE err.message]
           ELSE IF includes(err.message, "Invalid file type") THEN
             [s |-> 400, m |-> err.message]
           ELSE [s |-> 500, m |-> <<"Internal server error">>]
  IN  Response(r.s, FALSE, r.m, NoData)

\* C1 mutant: an AppError is not recognised and falls through to the default.
errorHandlerNoAppError(err) ==
  LET r == IF err.cls = "MulterError" THEN
             [s |-> 400,
              m |-> IF err.code = "LIMIT_FILE_SIZE"
                      THEN <<"File size exceeds the maximum allowed limit">>
                    ELSE IF err.code = "LIMIT_UNEXPECTED_FILE"
                      THEN <<"Unexpected field in file upload">>
                    ELSE err.message]
           ELSE IF includes(err.message, "Invalid file type") THEN
             [s |-> 400, m |-> err.message]
           ELSE IF err.name = "SequelizeValidationError" THEN
             [s |-> 400, m |-> <<"Validation error">>]
           ELSE IF err.name = "SequelizeUniqueConstraintError" THEN
             [s |-> 400, m |-> <<"Resource already exists">>]
           ELSE [s |-> 500, m |-> <<"Internal server error">>]
  IN  Response(r.s, FALSE, r.m, NoData)

errorHandler(err) ==
  LET r == IF err.cls \in AppErrorClasses THEN
             [s |-> err.statusCode, m |-> err.message]
           ELSE IF err.cls = "MulterError" THEN
             [s |-> 400,
              m |-> IF err.code = "LIMIT_FILE_SIZE"
                      THEN <<"File size exceeds the maximum allowed limit">>
                    ELSE IF err.code = "LIMIT_UNEXPECTED_FILE"
                      THEN <<"Unexpected field in file upload">>
                    ELSE err.message]
           ELSE IF includes(err.message, "Invalid file type") THEN
             [s |-> 400, m |-> err.message]
           ELSE IF err.name = "SequelizeValidationError" THEN
             [s |-> 400, m |-> <<"Validation error">>]
           ELSE IF err.name = "SequelizeUniqueConstraintError" THEN
             [s |-> 400, m |-> <<"Resource already exists">>]
           ELSE [s |-> 500, m |-> <<"Internal server error">>]
  IN  Response(r.s, FALSE, r.m, NoData)

\* ------------------------------------------------------------ validation
\* /^[^\s@]+@[^\s@]+\.[^\s@]+$/ : three non-empty runs free of blanks and
\* of @, separated by an @ and, after it, a dot.
isValidEmail(email) ==
  \E i \in 1..Len(email) : \E j \in 1..Len(email) :
    /\ 2 <= i /\ i + 2 <= j /\ j + 1 <= Len(email)
    /\ email[i] = "@"
    /\ email[j] = "."
    /\ \A k \in 1..Len(email) : k # i => email[k] \notin {" ", "@"}

\* ------------------------------------------------------------- passwords
\* bcrypt: the hash carries its salt; comparing re-derives the digest.
hashPassword(password, salt) == [salt |-> salt, digest |-> <<salt, password>>]
comparePassword(password, hash) == hash.digest = <<hash.salt, password>>

\* ------------------------------------------------------------------- JWT
\* HMAC over the payload with the secret
sign(userId, iat, exp, secret) == <<secret, userId, iat, exp>>

\* C4 mutant: the token is signed for a zero life time.
generateTokenNoLife(userId, clock) ==
  [userId |-> userId, iat |-> clock, exp |-> clock,
   sig |-> sign(userId, clock, clock, JWT_SECRET)]

generateToken(userId, clock) ==
  [userId |-> userId, iat |-> clock, exp |-> clock + JWT_EXPIRES_IN,
   sig |-> sign(userId, clock, clock + JWT_EXPIRES_IN, JWT_SECRET)]

\* C5 mutant: the token is decoded without checking signature or expiry.
verifyTokenDecodeOnly(token, clock) ==
  [ok |-> TRUE, userId |-> token.userId, message |-> ""]

\* jwt.verify throws JsonWebTokenError on a bad signature and
\* TokenExpiredError (a JsonWebTokenError too) once the clock reaches exp;
\* the first instanceof test catches both.
verifyToken(token, clock) ==
  IF token.sig # sign(token.userId, token.iat, token.exp, JWT_SECRET)
    THEN [ok |-> FALSE, userId |-> 0, message |-> "Invalid token"]
  ELSE IF clock >= token.exp
    THEN [ok |-> FALSE, userId |-> 0, message |-> "Invalid token"]
  ELSE [ok |-> TRUE, userId |-> token.userId, message |-> ""]

\* ------------------------------------------------------------------ state
VARIABLES
  users,        \* rows of table users
  images,       \* rows of table images
  files,        \* paths present in the upload directory
  nextUserId,   \* AUTO_INCREMENT of users.id
  nextImageId,  \* AUTO_INCREMENT of images.id
  nextFile,     \* unique suffix of the next stored file name
  now,          \* the clock
  rq,           \* per connection: the request being handled and its locals
  out,          \* the response just sent, until the client has taken it
  concurrency,  \* the clients: how many requests of a family they keep in
                \* flight, and whether they know the key tokens are signed with
  proc          \* the server process: listening, shutting down, exited

vars == <<users, images, files, nextUserId, nextImageId, nextFile, now, rq, out,
          concurrency, proc>>

NaN == 0 - 1

\* process.exit has not been called
NoExit == 0 - 1

\* The process after startServer: the HTTP server listens, the database is
\* connected, no signal has come.  signals counts the SIGTERM / SIGINT
\* received, callbacks the server.close callbacks waiting for the 'close'
\* event, importing and dbClosing the callbacks at their first and second
\* await, timers the armed shutdown timers.  httpClosed, db and timedOut
\* record what has happened.
Listening ==
  [phase |-> "listening", signals |-> 0, callbacks |-> 0, importing |-> 0,
   dbClosing |-> 0, timers |-> 0, httpClosed |-> FALSE, db |-> "open",
   timedOut |-> FALSE, exitCode |-> NoExit]

Running == proc.phase # "exited"

\* The process as startServer begins: nothing listens, the database is not
\* yet connected.
Starting == [Listening EXCEPT !.phase = "starting", !.db = "connecting"]

NoFile ==
  [filename |-> <<>>, originalname |-> <<>>, mimetype |-> "", size |-> 0, path |-> <<>>]
NoImage ==
  [id |-> 0, userId |-> 0, filename |-> <<>>, originalName |-> <<>>, mimetype |-> "",
   size |-> 0, path |-> <<>>]

\* A connection with no request.  taken, badAuth, absent, sent, unlinked and
\* wrote are history variables: the
\* email was stored when the request arrived; the request came without a
\* token that a login issued and that is still alive; no row had the
\* request's image id when the controller read it; the MIME type of the
\* file part the client sent; the files the request removed; the request
\* inserted, changed or deleted a row.  order lists what an update has done
\* so far: "store" the new file, "check" the ownership, "unlink" the old
\* file, "write" the row.
Idle ==
  [kind |-> "none", pc |-> "idle", email |-> <<>>, password |-> <<>>, fullName |-> "",
   userId |-> 0, imageId |-> 0, file |-> NoFile, existing |-> NoImage,
   taken |-> FALSE, badAuth |-> FALSE, absent |-> FALSE, unlinked |-> {},
   sent |-> "", wrote |-> FALSE, order |-> <<>>, err |-> <<>>]

NoOut == [req |-> Idle, res |-> Response(0, FALSE, <<>>, NoData)]

UserKinds == {"register", "login"}
ImageKinds == {"upload", "update", "delete", "list"}
Family(kind) == IF kind \in UserKinds THEN "users" ELSE "images"

InFlight == {s \in Slots : rq[s].pc # "idle"}

\* A request of this kind arrives on connection s.  Connections are
\* interchangeable: a new request takes the first free one.  Requests of
\* the two families share no table and no file, so only requests of one
\* family are taken to overlap.
CanStart(s, kind) ==
  /\ out = NoOut
  /\ proc.phase = "listening"
  /\ rq[s].pc = "idle"
  /\ \A t \in InFlight : Family(rq[t].kind) = Family(kind)
  /\ Cardinality(InFlight) < concurrency[Family(kind)]
  /\ \A i \in 1..Len(SlotOrder) : \A j \in 1..Len(SlotOrder) :
       (i < j /\ SlotOrder[j] = s) => rq[SlotOrder[i]].pc # "idle"

\* The handler chain of connection s ends: the response goes out and the
\* connection is free again.
Respond(s, req, res) ==
  /\ out' = [req |-> [req EXCEPT !.pc = "done"], res |-> res]
  /\ rq' = [rq EXCEPT ![s] = Idle]

\* Connection s is at this point of its handler chain.
At(s, kind, pc) == Running /\ out = NoOut /\ rq[s].kind = kind /\ rq[s].pc = pc

Continue(s, req) ==
  /\ out' = NoOut
  /\ rq' = [rq EXCEPT ![s] = req]

\* ------------------------------------------------------- table users
findByEmail(us, email) == {u \in us : u.email = email}

\* C2 mutant: the email column carries no unique index.
UserCreateNoUnique(us, id, email, hashedPassword, fullName, clock) ==
  LET user == [id |-> id, email |-> email, password |-> hashedPassword,
               fullName |-> fullName, createdAt |-> clock]
  IN  [ok |-> TRUE, user |-> user, users |-> us \cup {user}]

\* INSERT INTO users: email is UNIQUE.
UserCreate(us, id, email, hashedPassword, fullName, clock) ==
  LET user == [id |-> id, email |-> email, password |-> hashedPassword,
               fullName |-> fullName, createdAt |-> clock]
  IN  IF \E u \in us : u.email = email
        THEN [ok |-> FALSE, user |-> user, users |-> us]
        ELSE [ok |-> TRUE, user |-> user, users |-> us \cup {user}]

\* ---------------------------------------------------- POST /register
\* C17 mutant: the length of the password is not checked.
validateRegistrationNoLength(email, password, fullName) ==
  IF email = <<>> \/ password = <<>> \/ fullName = ""
    THEN <<Response(400, FALSE, <<"Email, password, and fullName are required">>, NoData)>>
  ELSE IF ~isValidEmail(email)
    THEN <<Response(400, FALSE, <<"Invalid email format">>, NoData)>>
  ELSE <<>>

\* The middleware's verdict: <<>> stands for next().
validateRegistration(email, password, fullName) ==
  IF email = <<>> \/ password = <<>> \/ fullName = ""
    THEN <<Response(400, FALSE, <<"Email, password, and fullName are required">>, NoData)>>
  ELSE IF ~isValidEmail(email)
    THEN <<Response(400, FALSE, <<"Invalid email format">>, NoData)>>
  ELSE IF Len(password) < MinPasswordLength
    THEN <<Response(400, FALSE, <<"Password must be at least 6 characters long">>, NoData)>>
  ELSE <<>>

\* validateRegistration, UserController.register up to the service call and
\* AuthService.register up to its first await.
StartRegister(s) ==
  \E body \in RegisterBodies :
    LET email == body.email
        password == body.password
        fullName == body.fullName
        req == [Idle EXCEPT !.kind = "register", !.email = email,
                            !.password = password, !.fullName = fullName,
                            !.taken = (findByEmail(users, email) # {})]
        v == validateRegistration(email, password, fullName)
    IN  /\ CanStart(s, "register")
        /\ IF v # <<>> THEN Respond(s, req, v[1])
           ELSE IF email = <<>> \/ password = <<>> \/ fullName = "" THEN
             Respond(s, req, Response(400, FALSE,
                        <<"Email, password, and fullName are required">>, NoData))
           ELSE IF ~isValidEmail(email) THEN
             Respond(s, req, errorHandler(ValidationError(<<"Invalid email format">>)))
           ELSE Continue(s, [req EXCEPT !.pc = "findByEmail"])
        /\ UNCHANGED <<users, images, files, nextUserId, nextImageId, nextFile, now,
                       concurrency, proc>>

\* const existingUser = await userRepository.findByEmail(email)
RegisterFindByEmail(s) ==
  /\ At(s, "register", "findByEmail")
  /\ IF findByEmail(users, rq[s].email) # {}
       THEN Respond(s, rq[s], errorHandler(ValidationError(<<"Email already exists">>)))
       ELSE Continue(s, [rq[s] EXCEPT !.pc = "create"])
  /\ UNCHANGED <<users, images, files, nextUserId, nextImageId, nextFile, now,
                 concurrency, proc>>

\* C14 mutant: the submitted password goes into the column as it is.
RegisterCreatePlain(s) ==
  /\ At(s, "register", "create")
  /\ LET c == UserCreate(users, nextUserId, rq[s].email,
                         [salt |-> "", digest |-> rq[s].password], rq[s].fullName, now)
     IN  IF c.ok
           THEN /\ users' = c.users
                /\ nextUserId' = nextUserId + 1
                /\ Respond(s, [rq[s] EXCEPT !.wrote = TRUE], Response(201, TRUE,
                      <<"User registered successfully">>, [userId |-> c.user.id]))
           ELSE /\ UNCHANGED <<users, nextUserId>>
                /\ Respond(s, rq[s], errorHandler(SequelizeUniqueConstraintError))
  /\ UNCHANGED <<images, files, nextImageId, nextFile, now, concurrency, proc>>

\* await hashPassword(password); await userRepository.create(...); the
\* hashing touches no shared state and is folded into this step.
RegisterCreate(s) ==
  /\ At(s, "register", "create")
  /\ \E salt \in Salts :
       LET c == UserCreate(users, nextUserId, rq[s].email,
                           hashPassword(rq[s].password, salt), rq[s].fullName, now)
       IN  IF c.ok
             THEN /\ users' = c.users
                  /\ nextUserId' = nextUserId + 1
                  /\ Respond(s, [rq[s] EXCEPT !.wrote = TRUE], Response(201, TRUE,
                        <<"User registered successfully">>, [userId |-> c.user.id]))
             ELSE /\ UNCHANGED <<users, nextUserId>>
                  /\ Respond(s, rq[s], errorHandler(SequelizeUniqueConstraintError))
  /\ UNCHANGED <<images, files, nextImageId, nextFile, now, concurrency, proc>>

\* ------------------------------------------------------- POST /login
validateLogin(email, password) ==
  IF email = <<>> \/ password = <<>>
    THEN <<Response(400, FALSE, <<"Email and password are required">>, NoData)>>
  ELSE IF ~isValidEmail(email)
    THEN <<Response(400, FALSE, <<"Invalid email format">>, NoData)>>
  ELSE <<>>

\* validateLogin and UserController.login up to the service call.
StartLogin(s) ==
  \E body \in LoginBodies :
    LET email == body.email
        password == body.password
        req == [Idle EXCEPT !.kind = "login", !.email = email, !.password = password]
        v == validateLogin(email, password)
    IN  /\ CanStart(s, "login")
        /\ IF v # <<>> THEN Respond(s, req, v[1])
           ELSE IF email = <<>> \/ password = <<>> THEN
             Respond(s, req, Response(400, FALSE,
                        <<"Email and password are required">>, NoData))
           ELSE Continue(s, [req EXCEPT !.pc = "findByEmail"])
        /\ UNCHANGED <<users, images, files, nextUserId, nextImageId, nextFile, now,
                       concurrency, proc>>

\* The catch block of UserController.login.
loginCatch(err) ==
  Response(500, FALSE, <<"Internal server error">>, [empty |-> TRUE])

\* C15 mutant: the user row itself is returned.
AuthService_loginRow(us, email, password, clock) ==
  LET found == findByEmail(us, email)
      user == CHOOSE u \in found : TRUE
  IN  IF found = {}
        THEN [err |-> <<AuthenticationError(<<"Invalid credentials">>)>>, result |-> NoData]
      ELSE IF ~comparePassword(password, user.password)
        THEN [err |-> <<AuthenticationError(<<"Invalid credentials">>)>>, result |-> NoData]
      ELSE [err |-> <<>>,
            result |-> [token |-> generateToken(user.id, clock), user |-> user]]

\* AuthService.login: the thrown error, or <<>> and the result.
\* comparePassword reads only the row already fetched, so the lookup and
\* the comparison are one step.
AuthService_login(us, email, password, clock) ==
  LET found == findByEmail(us, email)
      user == CHOOSE u \in found : TRUE
  IN  IF found = {}
        THEN [err |-> <<AuthenticationError(<<"Invalid credentials">>)>>, result |-> NoData]
      ELSE IF ~comparePassword(password, user.password)
        THEN [err |-> <<AuthenticationError(<<"Invalid credentials">>)>>, result |-> NoData]
      ELSE [err |-> <<>>,
            result |-> [token |-> generateToken(user.id, clock),
                        user |-> [id |-> user.id, email |-> user.email,
                                  createdAt |-> user.createdAt]]]

LoginAuthenticate(s) ==
  /\ At(s, "login", "findByEmail")
  /\ LET r == AuthService_login(users, rq[s].email, rq[s].password, now)
     IN  IF r.err # <<>>
           THEN Respond(s, rq[s], loginCatch(r.err[1]))
           ELSE Respond(s, rq[s], Response(200, TRUE, <<"Login successful">>, r.result))
  /\ UNCHANGED <<users, images, files, nextUserId, nextImageId, nextFile, now,
                 concurrency, proc>>

\* ------------------------------------------------------ table images
findById(imgs, id) == {i \in imgs : i.id = id}

\* C8 mutant: the where clause is lost and every row comes back.
findByUserIdAll(imgs, userId) == imgs

findByUserId(imgs, userId) == {i \in imgs : i.userId = userId}

\* C13 mutant: the url is the path on disk.
toImageDtoPath(image) ==
  [id |-> image.id, filename |-> image.filename, originalName |-> image.originalName,
   mimetype |-> image.mimetype, size |-> image.size, url |-> image.path]

toImageDto(image) ==
  [id |-> image.id, filename |-> image.filename, originalName |-> image.originalName,
   mimetype |-> image.mimetype, size |-> image.size,
   url |-> <<"/uploads/", image.filename>>]

\* ------------------------------------------------------ authentication
\* Tokens the clients hold: what login has returned so far.  Login changes
\* no state and is open to every registered user at every tick, so these are
\* the tokens generateToken makes for a stored user at a tick since the
\* user's registration.
heldTokens(us, clock) ==
  {generateToken(p[1].id, p[2]) :
     p \in {q \in us \X (0..clock) : q[2] >= q[1].createdAt}}

Malformed == [userId |-> 0, iat |-> 0, exp |-> 0, sig |-> <<>>]
\* a held token with its payload changed, and a token signed with a guessed key
forgedTokens(us, clock) ==
  {[t EXCEPT !.userId = 3 - t.userId] : t \in heldTokens(us, clock)}
  \cup {[userId |-> 1, iat |-> 0, exp |-> MaxClock + 1,
         sig |-> sign(1, 0, MaxClock + 1, "guess")],
        Malformed}

\* With the signing key (JWT_SECRET falls back to a default that is in the
\* source) a client makes itself a token for a user id that no login ever
\* returned: the next id the table will give out.
selfSignedTokens(clock) ==
  IF concurrency.keyKnown THEN {generateToken(nextUserId, clock)} ELSE {}

\* Authorization headers as lists of words: the scheme, then the rest.
Headers(us, clock) ==
  {<<>>, <<"Bearer">>}
  \cup {<<"Bearer", t>> : t \in selfSignedTokens(clock)}
  \cup {<<"Bearer", t>> : t \in heldTokens(us, clock) \cup forgedTokens(us, clock)}
  \cup {<<"Basic", t>> : t \in heldTokens(us, clock)}
  \cup {<<"Bearer", Malformed, t>> : t \in heldTokens(us, clock)}

GoodHeader(header, us, clock) ==
  /\ Len(header) = 2
  /\ header[1] = "Bearer"
  /\ header[2] \in heldTokens(us, clock)
  /\ clock < header[2].iat + JWT_EXPIRES_IN

\* res = <<>> stands for next(), with req.userId set.
authenticate(header, clock) ==
  IF header = <<>> THEN
    [res |-> <<Response(401, FALSE, <<"Authorization header missing">>, NoData)>>,
     userId |-> 0]
  ELSE IF Len(header) # 2 \/ header[1] # "Bearer" THEN
    [res |-> <<Response(401, FALSE,
                 <<"Invalid authorization header format. Expected: Bearer <token>">>,
                 NoData)>>,
     userId |-> 0]
  ELSE LET v == verifyToken(header[2], clock)
       IN  IF v.ok THEN [res |-> <<>>, userId |-> v.userId]
           ELSE [res |-> <<Response(401, FALSE, <<v.message>>, NoData)>>, userId |-> 0]

\* The request as it arrives at an image route.
Arriving(kind, header) ==
  [Idle EXCEPT !.kind = kind, !.badAuth = ~GoodHeader(header, users, now)]

\* ------------------------------------------------------ upload middleware
\* The multipart body: no file part, or one file.
NoUpload == [present |-> FALSE, originalname |-> <<>>, mimetype |-> "", size |-> 0]
Uploads ==
  {NoUpload,
   [present |-> TRUE, originalname |-> <<"photo", ".png">>, mimetype |-> "image/png",
    size |-> 1024],
   [present |-> TRUE, originalname |-> <<"notes", ".txt">>, mimetype |-> "text/plain",
    size |-> 1024],
   [present |-> TRUE, originalname |-> <<"huge", ".png">>, mimetype |-> "image/png",
    size |-> MAX_FILE_SIZE + 1]}

\* `${nameWithoutExt}-${uniqueSuffix}${ext}`
storedName(originalname, suffix) == <<originalname[1], suffix, originalname[2]>>

\* C18 mutant: no fileFilter.
multerNoFilter(upload, suffix) ==
  IF ~upload.present THEN [err |-> <<>>, file |-> NoFile]
  ELSE IF upload.size > MAX_FILE_SIZE THEN
    [err |-> <<MulterError("LIMIT_FILE_SIZE", "File too large")>>, file |-> NoFile]
  ELSE [err |-> <<>>,
        file |-> [filename |-> storedName(upload.originalname, suffix),
                  originalname |-> upload.originalname,
                  mimetype |-> upload.mimetype,
                  size |-> upload.size,
                  path |-> <<UPLOAD_DIR, storedName(upload.originalname, suffix)>>]]

\* multer: fileFilter, then the disk storage under the size limit.  A file
\* over the limit is removed again before the error is passed on.
multer(upload, suffix) ==
  IF ~upload.present THEN [err |-> <<>>, file |-> NoFile]
  ELSE IF upload.mimetype \notin ALLOWED_MIME_TYPES THEN
    [err |-> <<PlainError(<<"Invalid file type", ". Only ",
                            "image/jpeg, image/jpg, image/png, image/gif",
                            " are allowed.">>)>>,
     file |-> NoFile]
  ELSE IF upload.size > MAX_FILE_SIZE THEN
    [err |-> <<MulterError("LIMIT_FILE_SIZE", "File too large")>>, file |-> NoFile]
  ELSE [err |-> <<>>,
        file |-> [filename |-> storedName(upload.originalname, suffix),
                  originalname |-> upload.originalname,
                  mimetype |-> upload.mimetype,
                  size |-> upload.size,
                  path |-> <<UPLOAD_DIR, storedName(upload.originalname, suffix)>>]]

\* allowedMimeTypes of ImageService
serviceMimeTypes == {"image/jpeg", "image/jpg", "image/png", "image/gif"}

\* parseInt(id, 10): the value of the leading digits, NaN without any.
Digits == <<"0", "1", "2", "3", "4", "5", "6", "7", "8", "9">>
isDigit(c) == \E d \in 1..10 : Digits[d] = c
digitValue(c) == (CHOOSE d \in 1..10 : Digits[d] = c) - 1
RECURSIVE leadingValue(_, _, _)
leadingValue(str, i, acc) ==
  IF i > Len(str) \/ ~isDigit(str[i]) THEN acc
  ELSE leadingValue(str, i + 1, acc * 10 + digitValue(str[i]))
parseInt(str) ==
  IF str = <<>> \/ ~isDigit(str[1]) THEN NaN ELSE leadingValue(str, 1, 0)

IdParams == {<<"1">>, <<"2">>, <<"2", "x">>, <<"x">>}

\* fs.unlink: removes the file, or fails when there is none.
unlink(fs, path) ==
  IF path \in fs THEN [ok |-> TRUE, files |-> fs \ {path}]
  ELSE [ok |-> FALSE, files |-> fs]

\* ----------------------------------------------------- POST /images
StartUpload(s) ==
  \E header \in Headers(users, now) :
    LET req == Arriving("upload", header)
        a == authenticate(header, now)
    IN  /\ CanStart(s, "upload")
        /\ IF a.res # <<>> THEN Respond(s, req, a.res[1])
           ELSE Continue(s, [req EXCEPT !.pc = "multer", !.userId = a.userId])
        /\ UNCHANGED <<users, images, files, nextUserId, nextImageId, nextFile, now,
                       concurrency, proc>>

\* upload middleware, ImageController.uploadImage and
\* ImageService.uploadImage up to the insert.
UploadMulter(s) ==
  /\ At(s, "upload", "multer")
  /\ \E upload \in Uploads :
       LET m == multer(upload, nextFile)
           req == [rq[s] EXCEPT !.sent = upload.mimetype]
       IN  IF m.err # <<>> THEN
             /\ Respond(s, req, errorHandler(m.err[1]))
             /\ UNCHANGED <<files, nextFile>>
           ELSE IF m.file = NoFile THEN
             /\ Respond(s, req, Response(400, FALSE, <<"No file provided">>, NoData))
             /\ UNCHANGED <<files, nextFile>>
           ELSE
             /\ nextFile <= MaxFiles
             /\ files' = files \cup {m.file.path}
             /\ nextFile' = nextFile + 1
             /\ IF m.file.mimetype \notin serviceMimeTypes
                  THEN Respond(s, [req EXCEPT !.file = m.file],
                         errorHandler(ValidationError(
                           <<"Invalid file type", ". Only JPEG, PNG, and GIF images are allowed">>)))
                  ELSE Continue(s, [req EXCEPT !.pc = "create", !.file = m.file])
  /\ UNCHANGED <<users, images, nextUserId, nextImageId, now, concurrency, proc>>

\* C22 mutant: the user_id column references nothing.
ImageCreateNoReference(imgs, us, image) ==
  [ok |-> TRUE, images |-> imgs \cup {image}]

\* INSERT INTO images: user_id references users.id.
ImageCreate(imgs, us, image) ==
  IF \E u \in us : u.id = image.userId
    THEN [ok |-> TRUE, images |-> imgs \cup {image}]
    ELSE [ok |-> FALSE, images |-> imgs]

SequelizeForeignKeyConstraintError ==
  [cls |-> "Error", name |-> "SequelizeForeignKeyConstraintError", statusCode |-> 0,
   code |-> "", message |-> <<"a foreign key constraint fails">>]

\* await imageRepository.create(createImageDto); the id is taken from the
\* counter whether or not the row gets in.
UploadCreate(s) ==
  /\ At(s, "upload", "create")
  /\ LET f == rq[s].file
         image == [id |-> nextImageId, userId |-> rq[s].userId,
                   filename |-> f.filename, originalName |-> f.originalname,
                   mimetype |-> f.mimetype, size |-> f.size, path |-> f.path]
         c == ImageCreate(images, users, image)
     IN  /\ images' = c.images
         /\ nextImageId' = nextImageId + 1
         /\ IF c.ok
              THEN Respond(s, [rq[s] EXCEPT !.wrote = TRUE, !.existing = image],
                           Response(201, TRUE, <<"Image uploaded successfully">>,
                                    toImageDto(image)))
              ELSE Respond(s, rq[s], errorHandler(SequelizeForeignKeyConstraintError))
  /\ UNCHANGED <<users, files, nextUserId, nextFile, now, concurrency, proc>>

\* -------------------------------------------------- PUT /images/:id
StartUpdate(s) ==
  \E header \in Headers(users, now) :
    LET req == Arriving("update", header)
        a == authenticate(header, now)
    IN  /\ CanStart(s, "update")
        /\ IF a.res # <<>> THEN Respond(s, req, a.res[1])
           ELSE Continue(s, [req EXCEPT !.pc = "multer", !.userId = a.userId])
        /\ UNCHANGED <<users, images, files, nextUserId, nextImageId, nextFile, now,
                       concurrency, proc>>

\* upload middleware, ImageController.updateImage and
\* ImageService.updateImage up to the lookup.
UpdateMulter(s) ==
  /\ At(s, "update", "multer")
  /\ \E upload \in Uploads : \E param \in IdParams :
       LET m == multer(upload, nextFile)
           imageId == parseInt(param)
           req == [rq[s] EXCEPT !.file = m.file, !.imageId = imageId,
                                !.sent = upload.mimetype,
                                !.order = IF m.file = NoFile THEN @
                                          ELSE Append(@, "store"),
                                !.absent = (imageId # NaN /\ findById(images, imageId) = {})]
       IN  IF m.err # <<>> THEN
             /\ Respond(s, [rq[s] EXCEPT !.sent = upload.mimetype], errorHandler(m.err[1]))
             /\ UNCHANGED <<files, nextFile>>
           ELSE
             /\ IF m.file = NoFile THEN UNCHANGED <<files, nextFile>>
                ELSE /\ nextFile <= MaxFiles
                     /\ files' = files \cup {m.file.path}
                     /\ nextFile' = nextFile + 1
             /\ IF imageId = NaN THEN
                  Respond(s, req, Response(400, FALSE, <<"Invalid image ID">>, NoData))
                ELSE IF m.file = NoFile THEN
                  Respond(s, req, Response(400, FALSE, <<"No file provided">>, NoData))
                ELSE IF m.file.mimetype \notin serviceMimeTypes THEN
                  Respond(s, req, errorHandler(ValidationError(
                    <<"Invalid file type", ". Only JPEG, PNG, and GIF images are allowed">>)))
                ELSE Continue(s, [req EXCEPT !.pc = "findById"])
  /\ UNCHANGED <<users, images, nextUserId, nextImageId, now, concurrency, proc>>

\* C11 mutant: a missing row does not stop the update.
UpdateFindByIdNoLookup(s) ==
  /\ At(s, "update", "findById")
  /\ LET found == findById(images, rq[s].imageId)
         existingImage == IF found = {} THEN NoImage ELSE CHOOSE i \in found : TRUE
     IN  IF found # {} /\ existingImage.userId # rq[s].userId THEN
           Respond(s, [rq[s] EXCEPT !.existing = existingImage],
                   errorHandler(AuthorizationError(
                     <<"You are not authorized to update this image">>)))
         ELSE Continue(s, [rq[s] EXCEPT !.pc = "unlink", !.existing = existingImage])
  /\ UNCHANGED <<users, images, files, nextUserId, nextImageId, nextFile, now,
                 concurrency, proc>>

\* C6 mutant: the ownership check is missing.
UpdateFindByIdNoOwner(s) ==
  /\ At(s, "update", "findById")
  /\ LET found == findById(images, rq[s].imageId)
         existingImage == CHOOSE i \in found : TRUE
     IN  IF found = {} THEN
           Respond(s, rq[s], errorHandler(NotFoundError(<<"Image not found">>)))
         ELSE Continue(s, [rq[s] EXCEPT !.pc = "unlink", !.existing = existingImage])
  /\ UNCHANGED <<users, images, files, nextUserId, nextImageId, nextFile, now,
                 concurrency, proc>>

\* const existingImage = await imageRepository.findById(imageId)
UpdateFindById(s) ==
  /\ At(s, "update", "findById")
  /\ LET found == findById(images, rq[s].imageId)
         existingImage == CHOOSE i \in found : TRUE
     IN  IF found = {} THEN
           Respond(s, rq[s], errorHandler(NotFoundError(<<"Image not found">>)))
         ELSE IF existingImage.userId # rq[s].userId THEN
           Respond(s, [rq[s] EXCEPT !.existing = existingImage],
                   errorHandler(AuthorizationError(
                     <<"You are not authorized to update this image">>)))
         ELSE Continue(s, [rq[s] EXCEPT !.pc = "unlink", !.existing = existingImage,
                                        !.order = Append(@, "check")])
  /\ UNCHANGED <<users, images, files, nextUserId, nextImageId, nextFile, now,
                 concurrency, proc>>

\* C10 mutant: the old file is left on disk.
UpdateUnlinkSkipped(s) ==
  /\ At(s, "update", "unlink")
  /\ Continue(s, [rq[s] EXCEPT !.pc = "findByPk"])
  /\ UNCHANGED <<users, images, files, nextUserId, nextImageId, nextFile, now,
                 concurrency, proc>>

\* await fs.unlink(existingImage.path), its failure logged and ignored
UpdateUnlink(s) ==
  /\ At(s, "update", "unlink")
  /\ LET u == unlink(files, rq[s].existing.path)
     IN  /\ files' = u.files
         /\ Continue(s, [rq[s] EXCEPT
               !.pc = "findByPk",
               !.order = IF u.ok THEN Append(@, "unlink") ELSE @,
               !.unlinked = IF u.ok THEN @ \cup {rq[s].existing.path} ELSE @])
  /\ UNCHANGED <<users, images, nextUserId, nextImageId, nextFile, now, concurrency, proc>>

\* ImageRepository.update: const image = await Image.findByPk(id)
UpdateFindByPk(s) ==
  /\ At(s, "update", "findByPk")
  /\ LET found == findById(images, rq[s].imageId)
     IN  IF found = {} THEN
           Respond(s, rq[s], errorHandler(PlainError(<<"Image not found">>)))
         ELSE Continue(s, [rq[s] EXCEPT !.pc = "update",
                                        !.existing = CHOOSE i \in found : TRUE])
  /\ UNCHANGED <<users, images, files, nextUserId, nextImageId, nextFile, now,
                 concurrency, proc>>

\* ImageRepository.update: await image.update(imageData), an UPDATE of the
\* row with the instance's id (no row, no error); the response is built
\* from the instance.
UpdateWrite(s) ==
  /\ At(s, "update", "update")
  /\ LET f == rq[s].file
         updatedImage == [rq[s].existing EXCEPT
                            !.filename = f.filename, !.originalName = f.originalname,
                            !.mimetype = f.mimetype, !.size = f.size, !.path = f.path]
         rows == findById(images, updatedImage.id)
     IN  /\ images' = IF rows = {} THEN images
                      ELSE (images \ rows) \cup {updatedImage}
         /\ Respond(s, [rq[s] EXCEPT !.wrote = (rows # {}),
                                     !.order = IF rows # {} THEN Append(@, "write") ELSE @],
                    Response(200, TRUE, <<"Image updated successfully">>,
                             toImageDto(updatedImage)))
  /\ UNCHANGED <<users, files, nextUserId, nextImageId, nextFile, now, concurrency, proc>>

\* ----------------------------------------------- DELETE /images/:id
\* authenticate and ImageController.deleteImage up to the lookup.
StartDelete(s) ==
  \E header \in Headers(users, now) : \E param \in IdParams :
    LET a == authenticate(header, now)
        imageId == parseInt(param)
        req == [Arriving("delete", header) EXCEPT
                  !.absent = (a.res = <<>> /\ imageId # NaN
                              /\ findById(images, imageId) = {})]
    IN  /\ CanStart(s, "delete")
        /\ IF a.res # <<>> THEN Respond(s, req, a.res[1])
           ELSE IF imageId = NaN THEN
             Respond(s, [req EXCEPT !.userId = a.userId, !.imageId = imageId],
                     Response(400, FALSE, <<"Invalid image ID">>, NoData))
           ELSE Continue(s, [req EXCEPT !.pc = "findById", !.userId = a.userId,
                                        !.imageId = imageId])
        /\ UNCHANGED <<users, images, files, nextUserId, nextImageId, nextFile, now,
                       concurrency, proc>>

\* C12 mutant: a missing row does not stop the delete.
DeleteFindByIdNoLookup(s) ==
  /\ At(s, "delete", "findById")
  /\ LET found == findById(images, rq[s].imageId)
         existingImage == IF found = {} THEN NoImage ELSE CHOOSE i \in found : TRUE
     IN  IF found # {} /\ existingImage.userId # rq[s].userId THEN
           Respond(s, [rq[s] EXCEPT !.existing = existingImage],
                   errorHandler(AuthorizationError(
                     <<"You are not authorized to delete this image">>)))
         ELSE Continue(s, [rq[s] EXCEPT !.pc = "unlink", !.existing = existingImage])
  /\ UNCHANGED <<users, images, files, nextUserId, nextImageId, nextFile, now,
                 concurrency, proc>>

\* C7 mutant: the ownership check is missing.
DeleteFindByIdNoOwner(s) ==
  /\ At(s, "delete", "findById")
  /\ LET found == findById(images, rq[s].imageId)
         existingImage == CHOOSE i \in found : TRUE
     IN  IF found = {} THEN
           Respond(s, rq[s], errorHandler(NotFoundError(<<"Image not found">>)))
         ELSE Continue(s, [rq[s] EXCEPT !.pc = "unlink", !.existing = existingImage])
  /\ UNCHANGED <<users, images, files, nextUserId, nextImageId, nextFile, now,
                 concurrency, proc>>

DeleteFindById(s) ==
  /\ At(s, "delete", "findById")
  /\ LET found == findById(images, rq[s].imageId)
         existingImage == CHOOSE i \in found : TRUE
     IN  IF found = {} THEN
           Respond(s, rq[s], errorHandler(NotFoundError(<<"Image not found">>)))
         ELSE IF existingImage.userId # rq[s].userId THEN
           Respond(s, [rq[s] EXCEPT !.existing = existingImage],
                   errorHandler(AuthorizationError(
                     <<"You are not authorized to delete this image">>)))
         ELSE Continue(s, [rq[s] EXCEPT !.pc = "unlink", !.existing = existingImage])
  /\ UNCHANGED <<users, images, files, nextUserId, nextImageId, nextFile, now,
                 concurrency, proc>>

\* C9 mutant: the file is left on disk.
DeleteUnlinkSkipped(s) ==
  /\ At(s, "delete", "unlink")
  /\ Continue(s, [rq[s] EXCEPT !.pc = "destroy"])
  /\ UNCHANGED <<users, images, files, nextUserId, nextImageId, nextFile, now,
                 concurrency, proc>>

DeleteUnlink(s) ==
  /\ At(s, "delete", "unlink")
  /\ LET u == unlink(files, rq[s].existing.path)
     IN  /\ files' = u.files
         /\ Continue(s, [rq[s] EXCEPT
               !.pc = "destroy",
               !.unlinked = IF u.ok THEN @ \cup {rq[s].existing.path} ELSE @])
  /\ UNCHANGED <<users, images, nextUserId, nextImageId, nextFile, now, concurrency, proc>>

\* await imageRepository.delete(imageId): DELETE FROM images WHERE id = ?
DeleteDestroy(s) ==
  /\ At(s, "delete", "destroy")
  /\ LET rows == findById(images, rq[s].imageId)
     IN  /\ images' = images \ rows
         /\ Respond(s, [rq[s] EXCEPT !.wrote = (rows # {})],
                    Response(200, TRUE, <<"Image deleted successfully">>, NoData))
  /\ UNCHANGED <<users, files, nextUserId, nextImageId, nextFile, now, concurrency, proc>>

\* ------------------------------------------------------- GET /images
StartList(s) ==
  \E header \in Headers(users, now) :
    LET req == Arriving("list", header)
        a == authenticate(header, now)
    IN  /\ CanStart(s, "list")
        /\ IF a.res # <<>> THEN Respond(s, req, a.res[1])
           ELSE Continue(s, [req EXCEPT !.pc = "findAll", !.userId = a.userId])
        /\ UNCHANGED <<users, images, files, nextUserId, nextImageId, nextFile, now,
                       concurrency, proc>>

\* await imageRepository.findByUserId(userId), mapped through toImageDto
ListFindAll(s) ==
  /\ At(s, "list", "findAll")
  /\ Respond(s, rq[s],
             Response(200, TRUE, <<"Images retrieved successfully">>,
                      [list |-> {toImageDto(i) : i \in findByUserId(images, rq[s].userId)}]))
  /\ UNCHANGED <<users, images, files, nextUserId, nextImageId, nextFile, now,
                 concurrency, proc>>

\* ------------------------------------------------- next(error)
\* Errors a route can pass to next(): the application's errors, multer's,
\* the ORM's and the runtime's, with messages that do and do not mention an
\* invalid file type.
ErrorMessages ==
  {<<"Image not found">>, <<"Email already exists">>, <<"Validation error">>,
   <<"Invalid file type", ". Only JPEG, PNG, and GIF images are allowed">>,
   <<"Upload failed: ", "Invalid file type">>}
MulterCodes ==
  {<<"LIMIT_FILE_SIZE", "File too large">>,
   <<"LIMIT_UNEXPECTED_FILE", "Unexpected field">>,
   <<"LIMIT_FILE_COUNT", "Too many files">>,
   <<"LIMIT_PART_COUNT", "Too many parts">>}
ErrorNames ==
  {"Error", "TypeError", "SyntaxError", "SequelizeValidationError",
   "SequelizeUniqueConstraintError", "SequelizeDatabaseError",
   "SequelizeConnectionError"}
Errors ==
  {ValidationError(m) : m \in ErrorMessages}
  \cup {AuthenticationError(m) : m \in ErrorMessages}
  \cup {AuthorizationError(m) : m \in ErrorMessages}
  \cup {NotFoundError(m) : m \in ErrorMessages}
  \cup {MulterError(c[1], c[2]) : c \in MulterCodes}
  \cup {[PlainError(m) EXCEPT !.name = n] : m \in ErrorMessages, n \in ErrorNames}

\* A route handler or a middleware calls next(err).
Throw(s) ==
  \E e \in Errors :
    /\ CanStart(s, "failing")
    /\ Continue(s, [Idle EXCEPT !.kind = "failing", !.pc = "next", !.err = <<e>>])
    /\ UNCHANGED <<users, images, files, nextUserId, nextImageId, nextFile, now,
                   concurrency, proc>>

\* The global error handler answers.
HandleError(s) ==
  /\ At(s, "failing", "next")
  /\ Respond(s, rq[s], errorHandler(rq[s].err[1]))
  /\ UNCHANGED <<users, images, files, nextUserId, nextImageId, nextFile, now,
                 concurrency, proc>>

\* ------------------------------------------------------------- clock
Tick ==
  /\ out = NoOut
  /\ now < MaxClock
  /\ now' = now + 1
  /\ out' = NoOut
  /\ UNCHANGED <<users, images, files, nextUserId, nextImageId, nextFile, rq,
                 concurrency, proc>>

\* The client takes the response.
Deliver ==
  /\ out # NoOut
  /\ out' = NoOut
  /\ UNCHANGED <<users, images, files, nextUserId, nextImageId, nextFile, now, rq,
                 concurrency, proc>>

\* ----------------------------------------------------------- startup
\* syncDatabase: connects and synchronises the models; rejects when the
\* database cannot be reached or the sync fails.
syncDatabase(reachable) ==
  IF reachable THEN <<>>
  ELSE <<PlainError(<<"Unable to connect to the database">>)>>

\* C21 mutant: the server listens whatever syncDatabase did.
startServerListenAnyway ==
  /\ proc.phase = "starting"
  /\ \E reachable \in BOOLEAN :
       LET err == syncDatabase(reachable)
       IN  proc' = [proc EXCEPT !.phase = "listening",
                                !.db = IF err = <<>> THEN "open" ELSE "syncFailed"]
  /\ UNCHANGED <<users, images, files, nextUserId, nextImageId, nextFile, now, rq, out,
                 concurrency>>

\* startServer: await syncDatabase(), then app.listen and the signal
\* handlers; the catch block exits with code 1.
startServer ==
  /\ proc.phase = "starting"
  /\ \E reachable \in BOOLEAN :
       LET err == syncDatabase(reachable)
       IN  proc' = IF err = <<>>
                     THEN [proc EXCEPT !.phase = "listening", !.db = "open"]
                     ELSE [proc EXCEPT !.phase = "exited", !.db = "syncFailed",
                                       !.exitCode = 1]
  /\ UNCHANGED <<users, images, files, nextUserId, nextImageId, nextFile, now, rq, out,
                 concurrency>>

\* ---------------------------------------------------------- shutdown
\* SIGTERM or SIGINT: gracefulShutdown calls server.close(callback), which
\* closes the listening socket at once and keeps the callback for the
\* 'close' event, and arms the 10 second timer.  The handlers are registered
\* once the server listens.
Signal ==
  /\ Running
  /\ proc.phase # "starting"
  /\ proc.signals < MaxSignals
  /\ proc' = [proc EXCEPT !.signals = @ + 1,
                          !.phase = IF @ = "listening" THEN "closing" ELSE @,
                          !.callbacks = @ + 1,
                          !.timers = @ + 1]
  /\ UNCHANGED <<users, images, files, nextUserId, nextImageId, nextFile, now, rq, out,
                 concurrency>>

\* The 'close' event: the socket is closed and no connection is left (it may
\* never come if a client keeps its connection open).  Every callback kept
\* for it runs up to its first await, the import of the database module.
HttpClosed ==
  /\ Running
  /\ proc.phase \in {"closing", "closed"}
  /\ proc.callbacks > 0
  /\ InFlight = {}
  /\ proc' = [proc EXCEPT !.phase = "closed",
                          !.httpClosed = TRUE,
                          !.importing = @ + proc.callbacks,
                          !.callbacks = 0]
  /\ UNCHANGED <<users, images, files, nextUserId, nextImageId, nextFile, now, rq, out,
                 concurrency>>

\* A callback goes on: await sequelize.close()
DbCloseStart ==
  /\ Running
  /\ proc.importing > 0
  /\ proc' = [proc EXCEPT !.importing = @ - 1,
                          !.dbClosing = @ + 1,
                          !.db = IF @ = "open" THEN "closing" ELSE @]
  /\ UNCHANGED <<users, images, files, nextUserId, nextImageId, nextFile, now, rq, out,
                 concurrency>>

\* C20 mutant: the catch block exits with code 0 too.
DbCloseDoneExit0 ==
  /\ Running
  /\ proc.dbClosing > 0
  /\ \E closed \in BOOLEAN :
       proc' = [proc EXCEPT !.dbClosing = @ - 1,
                            !.db = IF closed THEN "closed" ELSE "failed",
                            !.phase = "exited",
                            !.exitCode = 0]
  /\ UNCHANGED <<users, images, files, nextUserId, nextImageId, nextFile, now, rq, out,
                 concurrency>>

\* sequelize.close() settles: process.exit(0), or process.exit(1) from the
\* catch block when it threw.
DbCloseDone ==
  /\ Running
  /\ proc.dbClosing > 0
  /\ \E closed \in BOOLEAN :
       proc' = [proc EXCEPT !.dbClosing = @ - 1,
                            !.db = IF closed THEN "closed" ELSE "failed",
                            !.phase = "exited",
                            !.exitCode = IF closed THEN 0 ELSE 1]
  /\ UNCHANGED <<users, images, files, nextUserId, nextImageId, nextFile, now, rq, out,
                 concurrency>>

\* The 10 seconds of a shutdown timer are over: process.exit(1)
TimerFires ==
  /\ Running
  /\ proc.timers > 0
  /\ proc' = [proc EXCEPT !.timers = @ - 1,
                          !.timedOut = TRUE,
                          !.phase = "exited",
                          !.exitCode = 1]
  /\ UNCHANGED <<users, images, files, nextUserId, nextImageId, nextFile, now, rq, out,
                 concurrency>>

\* ------------------------------------------------------ specification
InitDb ==
  /\ users = {}
  /\ images = {}
  /\ files = {}
  /\ nextUserId = 1
  /\ nextImageId = 1
  /\ nextFile = 1
  /\ now = 0
  /\ rq = [s \in Slots |-> Idle]
  /\ out = NoOut

\* Registrations and logins overlap; image requests come one at a time.
Init == InitDb /\ proc = Listening /\ concurrency = [users |-> 2, images |-> 1, keyKnown |-> FALSE]

Next ==
  \/ Tick
  \/ Deliver
  \/ \E s \in Slots :
       \/ StartRegister(s)
       \/ RegisterFindByEmail(s)
       \/ RegisterCreate(s)
       \/ StartLogin(s)
       \/ LoginAuthenticate(s)
       \/ StartUpload(s)
       \/ UploadMulter(s)
       \/ UploadCreate(s)
       \/ StartUpdate(s)
       \/ UpdateMulter(s)
       \/ UpdateFindById(s)
       \/ UpdateUnlink(s)
       \/ UpdateFindByPk(s)
       \/ UpdateWrite(s)
       \/ StartDelete(s)
       \/ DeleteFindById(s)
       \/ DeleteUnlink(s)
       \/ DeleteDestroy(s)
       \/ StartList(s)
       \/ ListFindAll(s)

Spec == Init /\ [][Next]_vars

\* The same server with the clients sending one request at a time.
SerialInit == InitDb /\ proc = Listening /\ concurrency = [users |-> 1, images |-> 1, keyKnown |-> FALSE]
SerialSpec == SerialInit /\ [][Next]_vars

\* Updates and deletes overlap.  The server has registered Ann and stored
\* one image of hers: the state after a registration and an upload.
Ann ==
  [id |-> 1, email |-> EmailA, password |-> hashPassword(GoodPassword, "salt1"),
   fullName |-> "Ann", createdAt |-> 0]
AnnsImage ==
  [id |-> 1, userId |-> 1, filename |-> storedName(<<"photo", ".png">>, 1),
   originalName |-> <<"photo", ".png">>, mimetype |-> "image/png", size |-> 1024,
   path |-> <<UPLOAD_DIR, storedName(<<"photo", ".png">>, 1)>>]
RaceInit ==
  /\ users = {Ann}
  /\ images = {AnnsImage}
  /\ files = {AnnsImage.path}
  /\ nextUserId = 2
  /\ nextImageId = 2
  /\ nextFile = 2
  /\ now = 0
  /\ rq = [s \in Slots |-> Idle]
  /\ out = NoOut
  /\ proc = Listening
  /\ concurrency = [users |-> 1, images |-> 2, keyKnown |-> FALSE]
RaceNext ==
  \/ Deliver
  \/ \E s \in Slots :
       \/ StartUpdate(s)
       \/ UpdateMulter(s)
       \/ UpdateFindById(s)
       \/ UpdateUnlink(s)
       \/ UpdateFindByPk(s)
       \/ UpdateWrite(s)
       \/ StartDelete(s)
       \/ DeleteFindById(s)
       \/ DeleteUnlink(s)
       \/ DeleteDestroy(s)
RaceSpec == RaceInit /\ [][RaceNext]_vars

\* The error handler alone, fed every error of Errors.
ErrorNext == Deliver \/ \E s \in Slots : Throw(s) \/ HandleError(s)
ErrorSpec == SerialInit /\ [][ErrorNext]_vars

\* The server under registrations and logins, one at a time, and
\* termination signals.  A timer that is armed fires unless the process has
\* exited before.
ShutdownNext ==
  \/ Signal
  \/ HttpClosed
  \/ DbCloseStart
  \/ DbCloseDone
  \/ TimerFires
  \/ Deliver
  \/ \E s \in Slots :
       \/ StartRegister(s)
       \/ RegisterFindByEmail(s)
       \/ RegisterCreate(s)
       \/ StartLogin(s)
       \/ LoginAuthenticate(s)
ShutdownSpec == SerialInit /\ [][ShutdownNext]_vars /\ WF_vars(TimerFires)

\* The process from its start: startServer, then the server as above.
StartupInit == InitDb /\ proc = Starting /\ concurrency = [users |-> 1, images |-> 1, keyKnown |-> FALSE]
StartupNext == startServer \/ ShutdownNext
StartupSpec ==
  /\ StartupInit
  /\ [][StartupNext]_vars

\* Requests one at a time from clients that know the signing key.
IntegrityInit ==
  InitDb /\ proc = Listening
         /\ concurrency = [users |-> 1, images |-> 1, keyKnown |-> TRUE]
IntegritySpec == IntegrityInit /\ [][Next]_vars

\* ================================================================ claims

\* C1: a registration whose email belonged to a stored user when it arrived
\* is answered 400 and creates no user: the email still has its one row.
C1_DuplicateEmailRejected ==
  (out.req.kind = "register" /\ out.req.taken) =>
    /\ out.res.status = 400
    /\ out.res.success = FALSE
    /\ ~out.req.wrote
    /\ Cardinality(findByEmail(users, out.req.email)) = 1

C1_Witness ==
  /\ out.req.kind = "register"
  /\ out.req.taken
  /\ out.res.status = 400
  /\ out.res.message = <<"Email already exists">>

\* C2: in every reachable state, whatever the interleaving of registrations,
\* no two rows of users have the same email.
C2_EmailUnique ==
  \A u1 \in users : \A u2 \in users : u1.email = u2.email => u1 = u2

\* Two registrations of one email overlapped and the second insert was refused.
C2_Witness ==
  /\ out.req.kind = "register"
  /\ ~out.req.taken
  /\ out.res.message = <<"Resource already exists">>
  /\ Cardinality(findByEmail(users, out.req.email)) = 1

\* The user whose email and password these are.
Registered(email, password) ==
  {u \in users : u.email = email /\ u.password = hashPassword(password, u.password.salt)}

\* C3: a well-formed login whose email is unknown or whose password is not
\* the stored user's is answered 401 'Invalid credentials' without a token.
C3_InvalidCredentials401 ==
  (/\ out.req.kind = "login"
   /\ isValidEmail(out.req.email)
   /\ out.req.password # <<>>
   /\ Registered(out.req.email, out.req.password) = {}) =>
    /\ out.res.status = 401
    /\ out.res.message = <<"Invalid credentials">>

\* C4: a login with the email and password of a registered user is answered
\* 200 with that user's id, email and createdAt and a token that verifyToken
\* maps back to the user's id.
C4_LoginReturnsToken ==
  (out.req.kind = "login" /\ Registered(out.req.email, out.req.password) # {}) =>
    \A u \in Registered(out.req.email, out.req.password) :
      /\ out.res.status = 200
      /\ out.res.data.user = [id |-> u.id, email |-> u.email, createdAt |-> u.createdAt]
      /\ verifyToken(out.res.data.token, now) = [ok |-> TRUE, userId |-> u.id, message |-> ""]

C4_Witness ==
  /\ out.req.kind = "login"
  /\ out.res.status = 200
  /\ Registered(out.req.email, out.req.password) # {}

\* C5: an image request that does not carry 'Bearer <token>' with a token a
\* login issued and that is still alive is answered 401 on arrival; it stores
\* no file, removes none, writes no row, and never gets to a later step.
C5_Unauthenticated401 ==
  /\ (out.req.kind \in ImageKinds /\ out.req.badAuth) =>
       /\ out.res.status = 401
       /\ out.req.file = NoFile
       /\ out.req.unlinked = {}
       /\ ~out.req.wrote
  /\ \A s \in Slots : rq[s].kind \in ImageKinds => ~rq[s].badAuth

C5_Witness ==
  /\ out.req.kind \in ImageKinds
  /\ out.req.badAuth
  /\ out.res.status = 401
  /\ out.res.message = <<"Invalid token">>
  /\ images # {}

\* C6: an update of an image that belongs to another user is answered 403;
\* the row is as it was read and its file is still on disk.
C6_UpdateForeign403 ==
  (/\ out.req.kind = "update"
   /\ out.req.existing # NoImage
   /\ out.req.existing.userId # out.req.userId) =>
    /\ out.res.status = 403
    /\ out.req.unlinked = {}
    /\ ~out.req.wrote
    /\ out.req.existing \in images
    /\ out.req.existing.path \in files

C6_Witness ==
  /\ out.req.kind = "update"
  /\ out.res.status = 403
  /\ out.req.existing.userId # out.req.userId

\* C7: a delete of an image that belongs to another user is answered 403;
\* neither the row nor the file is removed.
C7_DeleteForeign403 ==
  (/\ out.req.kind = "delete"
   /\ out.req.existing # NoImage
   /\ out.req.existing.userId # out.req.userId) =>
    /\ out.res.status = 403
    /\ out.req.unlinked = {}
    /\ ~out.req.wrote
    /\ out.req.existing \in images
    /\ out.req.existing.path \in files

C7_Witness ==
  /\ out.req.kind = "delete"
  /\ out.res.status = 403
  /\ out.req.existing.userId # out.req.userId

\* C8: the list answered to user U holds one entry for every row of images
\* whose userId is U and no entry of a row of another user.
C8_ListOwnImagesOnly ==
  (out.req.kind = "list" /\ ~out.req.badAuth) =>
    /\ out.res.status = 200
    /\ {d.id : d \in out.res.data.list} =
         {i.id : i \in {r \in images : r.userId = out.req.userId}}
    /\ \A d \in out.res.data.list :
         \E i \in images : i.userId = out.req.userId /\ d = toImageDto(i)

\* A non-empty list while another user has images too.
C8_Witness ==
  /\ out.req.kind = "list"
  /\ out.res.status = 200
  /\ out.res.data.list # {}
  /\ \E i \in images : i.userId # out.req.userId

C11_UpdateMissing404 ==
  (/\ out.req.kind = "update"
   /\ out.req.absent
   /\ out.req.file # NoFile) =>
    /\ out.res.status = 404
    /\ out.res.success = FALSE
    /\ out.req.unlinked = {}
    /\ ~out.req.wrote
    /\ findById(images, out.req.imageId) = {}

\* The id is missing while other rows and their files exist.
C11_Witness ==
  /\ out.req.kind = "update"
  /\ out.req.absent
  /\ out.res.status = 404
  /\ images # {}
  /\ \A i \in images : i.path \in files

\* C12: a delete with an image id that no row has is answered 404; it
\* changes no row and removes no file.  So the second of two deletes of one
\* image is answered 404.
C12_DeleteMissing404 ==
  (out.req.kind = "delete" /\ out.req.absent) =>
    /\ out.res.status = 404
    /\ out.res.success = FALSE
    /\ out.req.unlinked = {}
    /\ ~out.req.wrote
    /\ findById(images, out.req.imageId) = {}

\* The id was given out before: its row was deleted by an earlier request.
C12_Witness ==
  /\ out.req.kind = "delete"
  /\ out.req.absent
  /\ out.res.status = 404
  /\ out.req.imageId >= 1
  /\ out.req.imageId < nextImageId

\* C13: the step that answers an upload 201 inserts exactly one row; the row
\* has a fresh id, the authenticated user's id and the stored file's fields,
\* and the response carries the row's id, filename, originalName, mimetype
\* and size and the url '/uploads/' + filename.  No earlier step of the
\* upload touches the table.
C13_UploadCreatesOne ==
  [][/\ (out' # NoOut /\ out'.req.kind = "upload" /\ out'.res.status = 201) =>
          /\ ~out'.req.badAuth
          /\ \E i \in images' \ images :
               /\ images' = images \cup {i}
               /\ findById(images, i.id) = {}
               /\ i.userId = out'.req.userId
               /\ i.filename = out'.req.file.filename
               /\ i.originalName = out'.req.file.originalname
               /\ i.mimetype = out'.req.file.mimetype
               /\ i.size = out'.req.file.size
               /\ i.path = out'.req.file.path
               /\ i.path \in files'
               /\ out'.res.success
               /\ out'.res.data.id = i.id
               /\ out'.res.data.filename = i.filename
               /\ out'.res.data.originalName = i.originalName
               /\ out'.res.data.mimetype = i.mimetype
               /\ out'.res.data.size = i.size
               /\ out'.res.data.url = <<"/uploads/", i.filename>>
     /\ (\E s \in Slots : rq[s].kind = "upload" /\ rq'[s].kind = "upload") =>
          images' = images]_vars

\* A second upload answered 201: the table had a row before.
C13_Witness ==
  /\ out.req.kind = "upload"
  /\ out.res.status = 201
  /\ Cardinality(images) = 2
  /\ out.req.existing \in images

\* C14: every row a step adds to users comes from a registration in flight
\* and its password column holds hashPassword of the password that
\* registration submitted, not the password itself.
C14_PasswordHashed ==
  [][\A u \in users' \ users :
       \E s \in Slots :
         /\ rq[s].kind = "register"
         /\ u.email = rq[s].email
         /\ u.password = hashPassword(rq[s].password, u.password.salt)
         /\ u.password.digest # rq[s].password]_vars

\* A registration has been answered 201 and its row holds the hash.
C14_Witness ==
  /\ out.req.kind = "register"
  /\ out.res.status = 201
  /\ \E u \in users :
       /\ u.id = out.res.data.userId
       /\ \E salt \in Salts : u.password = hashPassword(out.req.password, salt)

\* The names of the fields of a response body's data, the user object and
\* the token payload included.
BodyFields(res) ==
  DOMAIN res.data
  \cup (IF "user" \in DOMAIN res.data THEN DOMAIN res.data.user ELSE {})
  \cup (IF "token" \in DOMAIN res.data THEN DOMAIN res.data.token ELSE {})

\* C15: a response to a registration or a login has no field beyond userId
\* (register), token and user {id, email, createdAt} (login); no value of
\* it is the submitted password or the password column of a stored user.
C15_NoPasswordInResponse ==
  (out.req.kind \in UserKinds) =>
    /\ BodyFields(out.res) \subseteq
         {"none", "empty", "userId", "token", "user", "id", "email", "createdAt",
          "iat", "exp", "sig"}
    /\ out.res.message # out.req.password
    /\ \A i \in 1..Len(out.res.message) : out.res.message[i] \notin {"password", "hash"}
    /\ "user" \in DOMAIN out.res.data =>
         /\ out.res.data.user.email # out.req.password
         /\ \A u \in users : out.res.data.user # u /\ out.res.data.token # u.password

\* A login answered 200 with the user's data.
C15_Witness ==
  /\ out.req.kind = "login"
  /\ out.res.status = 200
  /\ "user" \in DOMAIN out.res.data
  /\ \E u \in users : u.id = out.res.data.user.id /\ u.password.digest[2] = out.req.password

\* C16: an error passed to the error handler is answered in one step, once,
\* with success = false and the status of its type: 400, 401, 403, 404 for
\* the four application errors; 400 for a MulterError, for a message that
\* mentions an invalid file type and for the ORM's validation and unique
\* constraint errors; 500 for anything else.
C16_FlatErrorMapping ==
  /\ [](out.req.kind = "failing" =>
          LET e == out.req.err[1]
          IN  /\ out.res.success = FALSE
              /\ out.res.status =
                   IF e.cls = "ValidationError" THEN 400
                   ELSE IF e.cls = "AuthenticationError" THEN 401
                   ELSE IF e.cls = "AuthorizationError" THEN 403
                   ELSE IF e.cls = "NotFoundError" THEN 404
                   ELSE IF \/ e.cls = "MulterError"
                           \/ \E i \in 1..Len(e.message) : e.message[i] = "Invalid file type"
                           \/ e.name = "SequelizeValidationError"
                           \/ e.name = "SequelizeUniqueConstraintError" THEN 400
                   ELSE 500)
  /\ [][\A s \in Slots :
         (rq[s].kind = "failing" /\ rq'[s] # rq[s]) =>
           /\ rq'[s] = Idle
           /\ out = NoOut
           /\ out'.req.err = rq[s].err]_vars

\* An ORM error that is none of the application's has been answered 400.
C16_Witness ==
  /\ out.req.kind = "failing"
  /\ out.req.err[1].name = "SequelizeUniqueConstraintError"
  /\ out.res.status = 400
  /\ out.res.message = <<"Resource already exists">>

\* local@domain.tld: a non-empty local part, an @, a non-empty domain, a dot
\* and a non-empty rest, with no blank and no second @ anywhere.
LocalAtDomainTld(email) ==
  \E at \in 1..Len(email) : \E dot \in 1..Len(email) :
    /\ email[at] = "@"
    /\ email[dot] = "."
    /\ SubSeq(email, 1, at - 1) # <<>>
    /\ at < dot
    /\ SubSeq(email, at + 1, dot - 1) # <<>>
    /\ SubSeq(email, dot + 1, Len(email)) # <<>>
    /\ \A k \in (1..Len(email)) \ {at} : email[k] # " " /\ email[k] # "@"

\* C17: a registration without email, password or fullName, with an email
\* that is not local@domain.tld, or with a password of fewer than 6
\* characters is answered 400 and adds no row; no such registration gets
\* past the first step.
C17_RegistrationValidated ==
  /\ (/\ out.req.kind = "register"
      /\ \/ out.req.email = <<>>
         \/ out.req.password = <<>>
         \/ out.req.fullName = ""
         \/ ~LocalAtDomainTld(out.req.email)
         \/ Len(out.req.password) < 6) =>
       /\ out.res.status = 400
       /\ out.res.success = FALSE
       /\ ~out.req.wrote
       /\ findByEmail(users, out.req.email) = {} \/ out.req.taken
  /\ \A s \in Slots :
       rq[s].kind = "register" =>
         /\ LocalAtDomainTld(rq[s].email)
         /\ Len(rq[s].password) >= 6
         /\ rq[s].fullName # ""
  /\ \A u \in users : LocalAtDomainTld(u.email)

\* A registration with a well-formed email and a short password is refused.
C17_Witness ==
  /\ out.req.kind = "register"
  /\ LocalAtDomainTld(out.req.email)
  /\ out.req.password # <<>>
  /\ Len(out.req.password) < 6
  /\ out.res.status = 400

\* The file part of the request is not of an image type.
NotAnImage(req) ==
  /\ req.kind \in {"upload", "update"}
  /\ req.sent # ""
  /\ req.sent \notin {"image/jpeg", "image/jpg", "image/png", "image/gif"}

\* C18: an upload or an update whose file part is not image/jpeg, image/jpg,
\* image/png or image/gif is answered 400 in the step that reads the part;
\* that step leaves the upload directory and the table as they were, and
\* the request has stored no file, removed none and written no row.
C18_MimeValidated ==
  /\ [](NotAnImage(out.req) =>
          /\ out.res.status = 400
          /\ out.res.success = FALSE
          /\ out.req.file = NoFile
          /\ out.req.unlinked = {}
          /\ ~out.req.wrote)
  /\ [](\A s \in Slots : ~NotAnImage(rq[s]))
  /\ [][(out' # NoOut /\ NotAnImage(out'.req)) =>
          (files' = files /\ images' = images /\ nextFile' = nextFile)]_vars

\* A text file sent as the new file of an existing image is refused.
C18_Witness ==
  /\ out.req.kind = "update"
  /\ out.req.sent = "text/plain"
  /\ out.res.status = 400
  /\ images # {}

\* C19: an update answered 200 has checked the ownership, then removed the
\* old file, then stored the new file, then changed the row.
C19_UpdateOrder ==
  (out.req.kind = "update" /\ out.res.status = 200) =>
    out.req.order = <<"check", "unlink", "store", "write">>

\* C20: once a signal has come no new request is taken up; the database is
\* closed only after the HTTP server has closed with no request left; the
\* process exits with 0 only if the HTTP server closed and the database
\* closed without error, and with 1 when closing the database failed or a
\* shutdown timer ran out first; and after a signal the process exits.
C20_GracefulShutdown ==
  /\ [][proc.signals > 0 =>
          /\ \A s \in Slots : rq[s].pc = "idle" => rq'[s].pc = "idle"
          /\ (out = NoOut /\ out' # NoOut) => InFlight # {}]_vars
  /\ [](proc.db # "open" => (proc.httpClosed /\ InFlight = {}))
  /\ [](proc.exitCode \in {NoExit, 0, 1})
  /\ [](proc.exitCode # NoExit <=> proc.phase = "exited")
  /\ [](proc.exitCode = 0 => (proc.httpClosed /\ proc.db = "closed" /\ ~proc.timedOut))
  /\ [](proc.exitCode = 1 => (proc.db = "failed" \/ proc.timedOut))
  /\ [](proc.db = "failed" => proc.exitCode = 1)
  /\ [](proc.timedOut => proc.exitCode = 1)
  /\ (proc.signals > 0 ~> proc.phase = "exited")

\* A clean exit after the server had registered a user.
C20_Witness ==
  /\ proc.phase = "exited"
  /\ proc.exitCode = 0
  /\ proc.signals > 0
  /\ users # {}

\* C21: the server listens only once syncDatabase has succeeded; when it
\* fails the process exits with code 1 and never listens; no request is
\* taken up or answered while the database is not synchronised.
C21_StartupOrder ==
  /\ [](proc.phase = "listening" => proc.db = "open")
  /\ [](proc.db \in {"connecting", "syncFailed"} =>
          /\ InFlight = {}
          /\ out = NoOut
          /\ users = {})
  /\ [](proc.db = "syncFailed" => (proc.phase = "exited" /\ proc.exitCode = 1))
  /\ [][proc.db = "syncFailed" => proc'.phase = "exited"]_vars
  /\ [][(proc.phase = "starting" /\ proc'.phase = "listening") => proc'.db = "open"]_vars

\* A request has been answered by a server that started from scratch.
C21_Witness ==
  /\ proc.phase = "listening"
  /\ proc.db = "open"
  /\ out.req.kind = "register"
  /\ out.res.status = 201

\* C22: every row of images carries the id of a row of users.
C22_ReferentialIntegrity ==
  \A i \in images : \E u \in users : u.id = i.userId

\* An upload under a token for a user id without a row has been refused by
\* the database, while the table holds images.
C22_Witness ==
  /\ out.req.kind = "upload"
  /\ out.res.status = 500
  /\ \A u \in users : u.id # out.req.userId
  /\ images # {}

\* C23: a well-formed registration whose email had no row when it arrived
\* is answered 201 or 400, never 500.  Answered 201 it has added the one
\* row of its email; answered 400 it has added nothing and the email has
\* its one row, added by the registration that overtook it.
C23_RegisterRace ==
  (/\ out.req.kind = "register"
   /\ ~out.req.taken
   /\ validateRegistration(out.req.email, out.req.password, out.req.fullName) = <<>>) =>
    /\ out.res.status \in {201, 400}
    /\ Cardinality(findByEmail(users, out.req.email)) = 1
    /\ out.res.status = 201 =>
         /\ out.req.wrote
         /\ \A u \in findByEmail(users, out.req.email) : u.id = out.res.data.userId
    /\ out.res.status = 400 =>
         /\ ~out.req.wrote
         /\ out.res.success = FALSE

\* The loser of a race: it passed the duplicate check, its insert was
\* refused, and the row of its email is the one the winner just added.
C23_Witness ==
  /\ out.req.kind = "register"
  /\ ~out.req.taken
  /\ out.res.status = 400
  /\ out.res.message = <<"Resource already exists">>
  /\ ~out.req.wrote
  /\ \E u \in users : u.email = out.req.email /\ u.id = nextUserId - 1

\* C24: while no request is in progress every file of the upload directory
\* is the path of exactly one row of images; so a request answered with an
\* error has left none of the files the upload middleware stored for it.
C24_NoOrphanFiles ==
  /\ InFlight = {} =>
       \A f \in files : Cardinality({i \in images : i.path = f}) = 1
  /\ (out.req.kind \in {"upload", "update"} /\ out.res.status >= 400) =>
       out.req.file.path \notin files

\* The server reaches the state the race starts from.
RaceInitReached ==
  /\ users = {Ann}
  /\ images = {AnnsImage}
  /\ files = {AnnsImage.path}
  /\ nextUserId = 2 /\ nextImageId = 2 /\ nextFile = 2 /\ now = 0
  /\ InFlight = {} /\ out = NoOut

\* C25: overlapping updates and deletes of one image end as some serial
\* execution of them ends.  Whatever the state a request runs on, a serial
\* execution answers an authenticated update or delete 400, 403, 404 or
\* 200, never 500; a delete it answers 200 has itself removed the row and
\* the row's file; an update it answers 200 has itself removed the old
\* file and changed the row, and the row then carries the new file.
C25_SerialOutcome ==
  /\ (out.req.kind \in {"update", "delete"}) => out.res.status # 500
  /\ (out.req.kind = "delete" /\ out.res.status = 200) =>
       /\ out.req.wrote
       /\ out.req.unlinked = {out.req.existing.path}
  /\ (out.req.kind = "update" /\ out.res.status = 200) =>
       /\ out.req.wrote
       /\ out.req.unlinked = {out.req.existing.path}
       /\ \E i \in images : i.id = out.req.imageId /\ i.path = out.req.file.path

====
